---------------------------- MODULE Spec2Model ----------------------------
(***************************************************************************)
(* A model of qgrid.c: tabular Q-learning on a small grid world.           *)
(*                                                                         *)
(* float values are modelled as integers plus one NaN element; fractions   *)
(* (alpha, gamma, epsilon) are counted in units of 1/Den.  The persisted   *)
(* file is a sequence of 32-bit words.  rand() is a deterministic function *)
(* of the seed given to srand() and of the number of calls made so far.    *)
(***************************************************************************)
EXTENDS Integers, Sequences, FiniteSets, TLC

(***************************************************************************)
(* Program constants                                                       *)
(***************************************************************************)
MAX_W == 10
MAX_H == 10
\* ACTIONS in the source (a reserved word here): 0=up, 1=right, 2=down, 3=left
NUM_ACTIONS == 4
\* RAND_MAX of the C library, scaled down: rand() returns 0..RAND_MAX
RAND_MAX == 3
\* the float NaN: unordered with every value, absorbing in arithmetic
NaN == 1000000
STEP_REWARD == -1
GOAL_REWARD == 10
\* main's default --size
DEFAULT_W == 5
DEFAULT_H == 5

(***************************************************************************)
(* Bounds of the model                                                     *)
(***************************************************************************)
\* fractions are counted in units of 1/Den
Den == 2
\* srand() seeds are 0..MaxSeed
MaxSeed == 15
\* --train and --play take 0..MaxEpisodes
MaxEpisodes == 2
\* rand() repeats after TapeLen calls
TapeLen == 2
\* magnitude of the table values drawn for the pure-function specifications
MaxVal == 1

(***************************************************************************)
(* float arithmetic and comparison                                         *)
(***************************************************************************)
IsNaN(v) == v = NaN

\* a > b on floats: false when either operand is NaN
FGt(a, b) == ~IsNaN(a) /\ ~IsNaN(b) /\ a > b

\* a < b on floats
FLt(a, b) == ~IsNaN(a) /\ ~IsNaN(b) /\ a < b

FAdd(a, b) == IF IsNaN(a) \/ IsNaN(b) THEN NaN ELSE a + b

FSub(a, b) == IF IsNaN(a) \/ IsNaN(b) THEN NaN ELSE a - b

\* k/Den * x, rounded down to a representable value
FScale(k, x) == IF IsNaN(x) THEN NaN ELSE (k * x) \div Den

(***************************************************************************)
(* The environment                                                         *)
(***************************************************************************)
Pos(x, y) == [x |-> x, y |-> y]

\* obstacles stored as walls[x][y]
Walls_transposed(w, h) ==
    IF w >= 5 /\ h >= 5 THEN {<<2, 1>>, <<2, 2>>, <<2, 3>>, <<1, 3>>} ELSE {}

\* obstacles placed without looking at the size of the grid
Walls_anysize(w, h) == {<<1, 2>>, <<2, 2>>, <<3, 2>>, <<3, 1>>}

\* the obstacle cells set by env_init, as <<y, x>> (walls[y][x] = 1)
Walls(w, h) ==
    IF w >= 5 /\ h >= 5 THEN {<<1, 2>>, <<2, 2>>, <<3, 2>>, <<3, 1>>} ELSE {}

env_init(w, h) ==
    [w |-> w, h |-> h,
     start_x |-> 0, start_y |-> 0,
     goal_x |-> w - 1, goal_y |-> h - 1,
     walls |-> Walls(w, h),
     step_limit |-> w * h * 4,
     step_reward |-> STEP_REWARD,
     goal_reward |-> GOAL_REWARD]

env_valid(env, x, y) ==
    IF x < 0 \/ x >= env.w \/ y < 0 \/ y >= env.h THEN FALSE
    ELSE IF <<y, x>> \in env.walls THEN FALSE
    ELSE TRUE

\* the cell one move in the action's direction
Moved(s, action) ==
    IF action = 0 THEN Pos(s.x, s.y - 1)
    ELSE IF action = 1 THEN Pos(s.x + 1, s.y)
    ELSE IF action = 2 THEN Pos(s.x, s.y + 1)
    ELSE IF action = 3 THEN Pos(s.x - 1, s.y)
    ELSE s

\* a variant that lets the agent enter an invalid cell
env_step_nobump(env, s, action) ==
    LET ns == Moved(s, action)
        done == (ns.x = env.goal_x /\ ns.y = env.goal_y)
    IN  [ns |-> ns, done |-> done,
         reward |-> IF done THEN env.goal_reward ELSE env.step_reward]

\* a variant that charges the step and adds the goal reward on top
env_step_addgoal(env, s, action) ==
    LET mv == Moved(s, action)
        ns == IF ~env_valid(env, mv.x, mv.y) THEN s ELSE mv
        done == (ns.x = env.goal_x /\ ns.y = env.goal_y)
    IN  [ns |-> ns, done |-> done,
         reward |-> IF done THEN env.step_reward + env.goal_reward
                    ELSE env.step_reward]

\* a variant that gives a bump its own penalty, twice the step reward
env_step_penalty(env, s, action) ==
    LET mv == Moved(s, action)
        bump == ~env_valid(env, mv.x, mv.y)
        ns == IF bump THEN s ELSE mv
        done == (ns.x = env.goal_x /\ ns.y = env.goal_y)
    IN  [ns |-> ns, done |-> done,
         reward |-> IF done THEN env.goal_reward
                    ELSE IF bump THEN 2 * env.step_reward ELSE env.step_reward]

env_step(env, s, action) ==
    LET mv == Moved(s, action)
        ns == IF ~env_valid(env, mv.x, mv.y) THEN s ELSE mv
        done == (ns.x = env.goal_x /\ ns.y = env.goal_y)
    IN  [ns |-> ns, done |-> done,
         reward |-> IF done THEN env.goal_reward ELSE env.step_reward]

\* a state id computed with the height as the row length
state_id_byheight(env, x, y) == y * env.h + x

state_id(env, x, y) == y * env.w + x

idxQ(s, a) == s * NUM_ACTIONS + a

(***************************************************************************)
(* The Q-table                                                             *)
(***************************************************************************)
\* calloc'ed table: w*h*NUM_ACTIONS zeros
qmodel_alloc(w, h) ==
    [w |-> w, h |-> h, q |-> [i \in 0 .. (w * h * NUM_ACTIONS - 1) |-> 0]]

RECURSIVE argmax_scan(_, _, _, _, _)
argmax_scan(m, s, a, best, best_a) ==
    IF a >= NUM_ACTIONS THEN best_a
    ELSE LET v == m.q[idxQ(s, a)]
         IN  IF FGt(v, best) THEN argmax_scan(m, s, a + 1, v, a)
             ELSE argmax_scan(m, s, a + 1, best, best_a)

\* a variant of the scan in which the last maximal action wins
RECURSIVE argmax_scan_last(_, _, _, _, _)
argmax_scan_last(m, s, a, best, best_a) ==
    IF a >= NUM_ACTIONS THEN best_a
    ELSE LET v == m.q[idxQ(s, a)]
         IN  IF ~FLt(v, best) THEN argmax_scan_last(m, s, a + 1, v, a)
             ELSE argmax_scan_last(m, s, a + 1, best, best_a)

argmax_a_last(m, s) == argmax_scan_last(m, s, 1, m.q[idxQ(s, 0)], 0)

argmax_a(m, s) == argmax_scan(m, s, 1, m.q[idxQ(s, 0)], 0)

RECURSIVE maxQ_scan(_, _, _, _)
maxQ_scan(m, s, a, best) ==
    IF a >= NUM_ACTIONS THEN best
    ELSE LET v == m.q[idxQ(s, a)]
         IN  IF FGt(v, best) THEN maxQ_scan(m, s, a + 1, v)
             ELSE maxQ_scan(m, s, a + 1, best)

maxQ(m, s) == maxQ_scan(m, s, 1, m.q[idxQ(s, 0)])


(***************************************************************************)
(* Persistence                                                             *)
(***************************************************************************)
\* the values of a table in slot order
Values(m) == [i \in 1 .. (m.w * m.h * NUM_ACTIONS) |-> m.q[i - 1]]

\* the words save_qtable hands to fwrite: w, h, then the w*h*ACTIONS values
Layout(m) == <<m.w, m.h>> \o Values(m)

\* a variant that writes the header as h, w
save_qtable_swapped(f, m, canOpen, k) ==
    IF ~canOpen THEN [exit |-> TRUE, file |-> f]
    ELSE [exit |-> FALSE,
          file |-> [exists |-> TRUE,
                    data |-> SubSeq(<<m.h, m.w>> \o Values(m), 1, k)]]

\* save_qtable on the file f.  fopen either fails (exit(1), f is left as it
\* was) or truncates the file.  The three fwrite calls and fclose are not
\* checked: k is the number of words of the layout that reached the file.
save_qtable(f, m, canOpen, k) ==
    IF ~canOpen THEN [exit |-> TRUE, file |-> f]
    ELSE [exit |-> FALSE,
          file |-> [exists |-> TRUE, data |-> SubSeq(Layout(m), 1, k)]]

\* the table read from the words after the header
Loaded(w, h, data) ==
    [w |-> w, h |-> h,
     q |-> [i \in 0 .. (w * h * NUM_ACTIONS - 1) |-> data[i + 3]]]

\* a variant that does not compare fread's count with n: the values the
\* file does not hold stay at calloc's zero
load_qtable_nocheck(f) ==
    IF ~f.exists THEN [status |-> "fail", m |-> [w |-> 0, h |-> 0, q |-> <<>>]]
    ELSE IF Len(f.data) < 2
         THEN [status |-> "fail", m |-> [w |-> 0, h |-> 0, q |-> <<>>]]
    ELSE LET w == f.data[1]
             h == f.data[2]
             n == w * h * NUM_ACTIONS
         IN  IF n < 0 THEN [status |-> "oom", m |-> [w |-> 0, h |-> 0, q |-> <<>>]]
             ELSE [status |-> "ok",
                   m |-> [w |-> w, h |-> h,
                          q |-> [i \in 0 .. (n - 1) |->
                                   IF i + 3 <= Len(f.data) THEN f.data[i + 3]
                                   ELSE 0]]]

\* load_qtable on the file f: "fail" is return 0, "ok" is return 1 with the
\* table m, "oom" is qmodel_alloc's exit(1) (a negative w*h*ACTIONS becomes
\* a size_t no calloc can serve)
load_qtable(f) ==
    IF ~f.exists THEN [status |-> "fail", m |-> [w |-> 0, h |-> 0, q |-> <<>>]]
    ELSE IF Len(f.data) < 2
         THEN [status |-> "fail", m |-> [w |-> 0, h |-> 0, q |-> <<>>]]
    ELSE LET w == f.data[1]
             h == f.data[2]
             n == w * h * NUM_ACTIONS
         IN  IF n < 0 THEN [status |-> "oom", m |-> [w |-> 0, h |-> 0, q |-> <<>>]]
             ELSE IF Len(f.data) - 2 < n
                  THEN [status |-> "fail", m |-> [w |-> 0, h |-> 0, q |-> <<>>]]
             ELSE [status |-> "ok", m |-> Loaded(w, h, f.data)]

\* the numbers of words a save may leave in the file: nothing, a part of
\* the header, the header alone, a part of the values, everything
WriteCounts(m) ==
    LET n == m.w * m.h * NUM_ACTIONS
    IN  {0, 1, 2, 2 + n \div 2, 2 + n}

(***************************************************************************)
(* The random source, the policy and one step of each loop                 *)
(***************************************************************************)
\* a start-up that seeds from the clock whatever --seed says
SeedOf_clock(seed_arg, clock) == clock

\* main's seed: time(NULL) unless --seed gave one (seed_arg >= 0)
SeedOf(seed_arg, clock) == IF seed_arg < 0 THEN clock ELSE seed_arg

\* the value of the k-th rand() call (k = 0, 1, ...) after srand(sd): the
\* base-(RAND_MAX+1) digits of sd, repeated
RandOut(sd, k) == (sd \div ((RAND_MAX + 1) ^ (k % TapeLen))) % (RAND_MAX + 1)

fmaxf(a, b) == IF a > b THEN a ELSE b

\* v * expf(x) for x counted in units of ln 2, rounded down
ExpScale(x, v) == IF x >= 0 THEN v * (2 ^ x) ELSE v \div (2 ^ (-x))

\* an epsilon schedule without its floor
Epsilon_nofloor(e, eps_start, eps_min, eps_decay) ==
    ExpScale((-eps_decay) * e, eps_start)

\* epsilon of episode e, in units of 1/Den
Epsilon(e, eps_start, eps_min, eps_decay) ==
    fmaxf(eps_min, ExpScale((-eps_decay) * e, eps_start))

\* eps_greedy_action with k rand() calls made before it: the action chosen
\* and the number of rand() calls made after it
eps_greedy_action(m, st, e, sd, k) ==
    IF RandOut(sd, k) * Den < e * RAND_MAX
    THEN [a |-> RandOut(sd, k + 1) % NUM_ACTIONS, calls |-> k + 2]
    ELSE [a |-> argmax_a(m, st), calls |-> k + 1]

\* a loop test that forgets the goal
episode_over_nodone(e, done, n) == n >= e.step_limit

\* a loop test that lets the episode run one step past the limit
episode_over_late(e, done, n) == done \/ n > e.step_limit

\* the loops' exit test, n being the steps taken so far
episode_over(e, done, n) == done \/ n >= e.step_limit

\* an update that writes the chosen action's slot of the next state
train_step_nextslot(e, m, p, epsilon, alpha, gamma, sd, k) ==
    LET s_id == state_id(e, p.x, p.y)
        act == eps_greedy_action(m, s_id, epsilon, sd, k)
        a == act.a
        st == env_step(e, p, a)
        ns_id == state_id(e, st.ns.x, st.ns.y)
        td_target == FAdd(st.reward,
                          IF st.done THEN 0 ELSE FScale(gamma, maxQ(m, ns_id)))
        Qsa == m.q[idxQ(s_id, a)]
    IN  [m |-> [m EXCEPT !.q[idxQ(ns_id, a)] =
                    FAdd(Qsa, FScale(alpha, FSub(td_target, Qsa)))],
         a |-> a, ns |-> st.ns, reward |-> st.reward, done |-> st.done,
         calls |-> act.calls]

\* the body of train's inner loop from position p with k rand() calls made:
\* the table, the position, the reward and the rand() count after it
train_step(e, m, p, epsilon, alpha, gamma, sd, k) ==
    LET s_id == state_id(e, p.x, p.y)
        act == eps_greedy_action(m, s_id, epsilon, sd, k)
        a == act.a
        st == env_step(e, p, a)
        ns_id == state_id(e, st.ns.x, st.ns.y)
        td_target == FAdd(st.reward,
                          IF st.done THEN 0 ELSE FScale(gamma, maxQ(m, ns_id)))
        Qsa == m.q[idxQ(s_id, a)]
    IN  [m |-> [m EXCEPT !.q[idxQ(s_id, a)] =
                    FAdd(Qsa, FScale(alpha, FSub(td_target, Qsa)))],
         a |-> a, ns |-> st.ns, reward |-> st.reward, done |-> st.done,
         calls |-> act.calls]

\* an evaluation step that also applies the learning update (alpha = 1,
\* no next-state term)
play_step_learn(e, m, p) ==
    LET sid == state_id(e, p.x, p.y)
        a == argmax_a(m, sid)
        st == env_step(e, p, a)
    IN  [m |-> [m EXCEPT !.q[idxQ(sid, a)] = st.reward],
         a |-> a, ns |-> st.ns, reward |-> st.reward, done |-> st.done]

\* the body of play_greedy's inner loop from position p
play_step(e, m, p) ==
    LET sid == state_id(e, p.x, p.y)
        a == argmax_a(m, sid)
        st == env_step(e, p, a)
    IN  [m |-> m,
         a |-> a, ns |-> st.ns, reward |-> st.reward, done |-> st.done]

\* a size test that forgets the upper limits
size_invalid_nomax(W, H) == W < 2 \/ H < 2

\* main's test of --size
size_invalid(W, H) == W < 2 \/ H < 2 \/ W > MAX_W \/ H > MAX_H

(***************************************************************************)
(* State                                                                   *)
(***************************************************************************)
VARIABLES
    pc,         \* position in main / train / play_greedy
    args,       \* the parsed command line
    now,        \* time(NULL) at start-up
    seed,       \* the value given to srand()
    calls,      \* number of rand() calls made since srand()
    env,        \* Env
    q,          \* QModel
    file,       \* the file at the save/load path
    writable,   \* whether fopen(path, "wb") succeeds
    exit_code,  \* the process's exit status, -1 while running
    out,        \* the messages printed so far
    ep,         \* episode index of train / play_greedy
    eps,        \* epsilon of the current training episode, in units of 1/Den
    s,          \* agent position
    steps,      \* steps taken in the current episode
    ret,        \* return of the current episode
    last,       \* the last env_step call and its result
    did,        \* counts of the training steps, evaluation steps and saves made
    runB,       \* a second, independent training run
    lres,       \* result of the last load_qtable call
    qres        \* result of the last argmax_a / maxQ query

vars == <<pc, args, now, seed, calls, env, q, file, writable, exit_code, out,
          ep, eps, s, steps, ret, last, did, runB, lres, qres>>

NoStep == [called |-> FALSE, s |-> Pos(0, 0), a |-> 0, ns |-> Pos(0, 0),
           reward |-> 0, done |-> FALSE]

NoArgs == [W |-> 0, H |-> 0, train_eps |-> 0, play_eps |-> 0,
           save_path |-> FALSE, load_path |-> FALSE, seed |-> -1,
           alpha |-> 0, gamma |-> 0,
           eps_start |-> 0, eps_min |-> 0, eps_decay |-> 0]

NoFile == [exists |-> FALSE, data |-> <<>>]

NoTable == [w |-> 0, h |-> 0, q |-> <<>>]

NoLoad == [called |-> FALSE, status |-> "none", m |-> NoTable]

NoQuery == [called |-> FALSE, s |-> 0, a |-> 0, v |-> 0]

NoRun == [on |-> FALSE]

\* the variables a specification does not use
IdleProgram ==
    /\ args = NoArgs /\ now = 0 /\ seed = 0 /\ calls = 0
    /\ writable = FALSE /\ exit_code = -1 /\ out = {}
    /\ ep = 0 /\ eps = 0 /\ steps = 0 /\ ret = 0
    /\ did = [train |-> 0, play |-> 0, save |-> 0]
    /\ runB = NoRun

(***************************************************************************)
(* The transition function on every grid env_init builds                   *)
(***************************************************************************)
InitWalk ==
    /\ IdleProgram
    /\ pc = "walk"
    /\ \E w \in 2 .. MAX_W, h \in 2 .. MAX_H : env = env_init(w, h)
    /\ \E x \in 0 .. env.w - 1, y \in 0 .. env.h - 1 :
          /\ env_valid(env, x, y)
          /\ s = Pos(x, y)
    /\ last = NoStep
    /\ q = NoTable /\ file = NoFile /\ lres = NoLoad /\ qres = NoQuery

\* one env_step call from the agent's cell, with any action
WalkStep ==
    /\ pc = "walk"
    /\ \E a \in 0 .. NUM_ACTIONS - 1 :
          LET r == env_step(env, s, a)
          IN  /\ s' = r.ns
              /\ last' = [called |-> TRUE, s |-> s, a |-> a, ns |-> r.ns,
                          reward |-> r.reward, done |-> r.done]
    /\ UNCHANGED <<pc, args, now, seed, calls, env, q, file, writable,
                   exit_code, out, ep, eps, steps, ret, did, runB, lres, qres>>

NextWalk == WalkStep

SpecWalk == InitWalk /\ [][NextWalk]_vars

\* the cell the action of the last env_step call points at
Target == 
    IF last.a = 0 THEN Pos(last.s.x, last.s.y - 1)
    ELSE IF last.a = 1 THEN Pos(last.s.x + 1, last.s.y)
    ELSE IF last.a = 2 THEN Pos(last.s.x, last.s.y + 1)
    ELSE Pos(last.s.x - 1, last.s.y)

InGrid(p) == 0 <= p.x /\ p.x < env.w /\ 0 <= p.y /\ p.y < env.h

Blocked(p) == <<p.y, p.x>> \in env.walls

\* C1: on every grid env_init builds for a size in 2..10 x 2..10, env_step
\* from a valid cell with any of the 4 actions returns a cell that is in
\* bounds and no obstacle, and that is the cell the action points at or the
\* original cell.
C1_TransitionTotality ==
    /\ InGrid(s) /\ ~Blocked(s)
    /\ last.called =>
          /\ InGrid(last.s) /\ ~Blocked(last.s)
          /\ InGrid(last.ns) /\ ~Blocked(last.ns)
          /\ last.ns = Target \/ last.ns = last.s

\* an agent that was stopped by an obstacle
C1_Witness ==
    /\ pc = "walk" /\ last.called
    /\ InGrid(Target) /\ Blocked(Target)
    /\ last.ns = last.s

\* C3: a move into an out-of-bounds or obstacle cell returns the input
\* position; done is true exactly when the returned position is the goal;
\* the reward is goal_reward when done and step_reward otherwise, a bump
\* included.
C3_StepOutcome ==
    last.called =>
      /\ (~InGrid(Target) \/ Blocked(Target)) => last.ns = last.s
      /\ last.done <=> (last.ns.x = env.goal_x /\ last.ns.y = env.goal_y)
      /\ last.reward = IF last.done THEN env.goal_reward ELSE env.step_reward

\* an agent that bumped into the edge of the grid and was charged step_reward
C3_Witness ==
    /\ pc = "walk" /\ last.called
    /\ ~InGrid(Target)
    /\ last.ns = last.s /\ ~last.done /\ last.reward = STEP_REWARD

(***************************************************************************)
(* Tables of any contents: the greedy queries, save and load               *)
(***************************************************************************)
\* a 2x2 table as a training run leaves it, with a NaN in it
SampleTable ==
    [w |-> 2, h |-> 2,
     q |-> [i \in 0 .. (2 * 2 * NUM_ACTIONS - 1) |->
              IF i = 1 THEN 5 ELSE IF i = 2 THEN -1
              ELSE IF i = 4 THEN NaN ELSE 0]]

\* the files tried at the load path: none, one shorter than the header,
\* one with too few values, a 2x2 table, a 3x2 table, and a header whose
\* w*h*ACTIONS is negative
Files ==
    { NoFile,
      [exists |-> TRUE, data |-> <<2>>],
      [exists |-> TRUE, data |-> <<2, 2, 0, 0, 0>>],
      [exists |-> TRUE, data |-> Layout(SampleTable)],
      [exists |-> TRUE, data |-> Layout(qmodel_alloc(3, 2))],
      [exists |-> TRUE, data |-> <<-1, 2>>] }

\* the float values drawn for a table
Vals == (-MaxVal .. MaxVal) \cup {NaN}

\* a 2x3 or 3x2 table: the row of one state drawn from Vals, the other
\* rows holding a value above every drawn one
InitTable ==
    /\ IdleProgram
    /\ pc = "table"
    /\ env = env_init(2, 2) /\ s = Pos(0, 0) /\ last = NoStep
    /\ \E sz \in {<<2, 3>>, <<3, 2>>}, st \in 0 .. 5,
          row \in [0 .. NUM_ACTIONS - 1 -> Vals] :
          q = [w |-> sz[1], h |-> sz[2],
               q |-> [i \in 0 .. (sz[1] * sz[2] * NUM_ACTIONS - 1) |->
                        IF i \div NUM_ACTIONS = st THEN row[i % NUM_ACTIONS]
                        ELSE MaxVal + 1]]
    /\ file = NoFile /\ lres = NoLoad /\ qres = NoQuery

\* argmax_a and maxQ on one state of the table
TableQuery ==
    /\ pc = "table"
    /\ \E st \in 0 .. (q.w * q.h - 1) :
          qres' = [called |-> TRUE, s |-> st,
                   a |-> argmax_a(q, st), v |-> maxQ(q, st)]
    /\ UNCHANGED <<pc, args, now, seed, calls, env, q, file, writable,
                   exit_code, out, ep, eps, s, steps, ret, last, did, runB,
                   lres>>

\* save_qtable of the table, the path being writable or not
TableSave ==
    /\ pc = "table"
    /\ \E canOpen \in BOOLEAN, k \in WriteCounts(q) :
          LET r == save_qtable(file, q, canOpen, k)
          IN  /\ file' = r.file
              /\ did' = [did EXCEPT !.save = IF r.exit THEN @ ELSE 1]
    /\ lres' = NoLoad
    /\ UNCHANGED <<pc, args, now, seed, calls, env, q, writable,
                   exit_code, out, ep, eps, s, steps, ret, last, runB, qres>>

\* load_qtable of the file
TableLoad ==
    /\ pc = "table"
    /\ LET r == load_qtable(file)
       IN  lres' = [called |-> TRUE, status |-> r.status, m |-> r.m]
    /\ UNCHANGED <<pc, args, now, seed, calls, env, q, file, writable,
                   exit_code, out, ep, eps, s, steps, ret, last, did, runB,
                   qres>>

\* another file is put at the path
TableReplace ==
    /\ pc = "table"
    /\ file' \in Files
    /\ did' = [did EXCEPT !.save = 0]
    /\ lres' = NoLoad
    /\ UNCHANGED <<pc, args, now, seed, calls, env, q, writable,
                   exit_code, out, ep, eps, s, steps, ret, last, runB, qres>>

\* the greedy queries on a table of any contents
NextQuery == TableQuery

SpecQuery == InitTable /\ [][NextQuery]_vars

\* save and load of a table of any contents
NextTable == TableSave \/ TableLoad \/ TableReplace

SpecTable == InitTable /\ [][NextTable]_vars

\* the 4 action values of the queried state
Row == [a \in 0 .. NUM_ACTIONS - 1 |-> q.q[qres.s * NUM_ACTIONS + a]]

\* action a holds the maximum of the row, a NaN being no candidate and
\* being skipped (as fmaxf does)
MaxAt(a) ==
    /\ ~IsNaN(Row[a])
    /\ \A b \in 0 .. NUM_ACTIONS - 1 : IsNaN(Row[b]) \/ Row[b] <= Row[a]

\* action a is the lowest action that holds the maximum of the row
LowestMax(a) ==
    /\ MaxAt(a)
    /\ \A b \in 0 .. NUM_ACTIONS - 1 : b < a => ~MaxAt(b)

\* C4 as stated: for every assignment of the 4 action values argmax_a
\* returns the lowest action whose value equals the maximum of the 4 (a row
\* of 4 NaN has none: action 0 is accepted there), and maxQ returns the
\* value of that action.
C4_AnyValues ==
    qres.called =>
      /\ IF \A b \in 0 .. NUM_ACTIONS - 1 : IsNaN(Row[b]) THEN qres.a = 0
         ELSE LowestMax(qres.a)
      /\ qres.v = Row[qres.a]

\* C4, amended: maxQ always returns the value of the action argmax_a
\* returns; when the value of action 0 is not NaN that action is the lowest
\* one whose value equals the maximum of the non-NaN values; when the value
\* of action 0 is NaN it is action 0, whatever the other values.
C4_GreedyTieBreak ==
    qres.called =>
      /\ qres.v = Row[qres.a]
      /\ ~IsNaN(Row[0]) => LowestMax(qres.a)
      /\ IsNaN(Row[0]) => qres.a = 0

\* a tie for the maximum between actions 1 and 3, resolved to action 1
C4_Witness ==
    /\ pc = "table" /\ qres.called
    /\ \A b \in 0 .. NUM_ACTIONS - 1 : ~IsNaN(Row[b])
    /\ Row[1] = Row[3] /\ Row[0] < Row[1] /\ Row[2] < Row[1]
    /\ qres.a = 1 /\ qres.v = Row[1]

\* the number of values the file's header declares
Declared == file.data[1] * file.data[2] * NUM_ACTIONS

\* C8: load_qtable returns 0 when the file cannot be opened, when it is
\* shorter than the two-integer header, or when it holds fewer values than
\* its header declares; it reports success only when the header and all
\* the declared values were read.
C8_LoadFailure ==
    lres.called =>
      /\ ~file.exists => lres.status = "fail"
      /\ (file.exists /\ Len(file.data) < 2) => lres.status = "fail"
      /\ (file.exists /\ Len(file.data) >= 2 /\ Len(file.data) - 2 < Declared)
            => lres.status = "fail"
      /\ lres.status = "ok" =>
            /\ file.exists /\ Len(file.data) >= 2
            /\ Len(file.data) - 2 >= Declared
            /\ lres.m.w = file.data[1] /\ lres.m.h = file.data[2]
            /\ \A i \in 0 .. Declared - 1 : lres.m.q[i] = file.data[3 + i]

\* a file whose header is whole and whose values are cut short
C8_Witness ==
    /\ pc = "table" /\ lres.called /\ file.exists
    /\ Len(file.data) > 2 /\ Len(file.data) - 2 < Declared
    /\ lres.status = "fail"

\* C9: when save_qtable has written a table and load_qtable then reads the
\* file successfully, the loaded table has the same w, the same h and the
\* same value in every slot state*4 + action.
C9_RoundTrip ==
    (pc = "table" /\ did.save > 0 /\ lres.called /\ lres.status = "ok") =>
      /\ lres.m.w = q.w /\ lres.m.h = q.h
      /\ \A st \in 0 .. (q.w * q.h - 1), a \in 0 .. NUM_ACTIONS - 1 :
            lres.m.q[st * NUM_ACTIONS + a] = q.q[st * NUM_ACTIONS + a]

\* a saved table with a NaN and a non-zero value, loaded back
C9_Witness ==
    /\ pc = "table" /\ did.save > 0 /\ lres.called /\ lres.status = "ok"
    /\ q.w # q.h
    /\ \E i \in DOMAIN q.q : IsNaN(q.q[i]) /\ lres.m.q[i] = q.q[i]
    /\ \E i \in DOMAIN q.q : q.q[i] = -1 /\ lres.m.q[i] = -1

(***************************************************************************)
(* The program: main, train, play_greedy                                   *)
(***************************************************************************)
\* the --size values tried: below the minimum, two allowed, above MAX_H
SizeArgs == {<<1, 2>>, <<2, 2>>, <<3, 2>>, <<2, MAX_H + 1>>}

\* the (eps_start, eps_min, eps_decay) tried: always greedy, always
\* exploring, decaying to a floor, a floor above the start
EpsArgs == {<<0, 0, 0>>, <<Den, 0, 0>>, <<Den, 1, 1>>, <<1, Den, 0>>}

\* runs that vary the size, the episode counts and the paths, with the
\* default hyperparameters and the seed taken from the clock
ArgsIO ==
    { [W |-> sz[1], H |-> sz[2], train_eps |-> te, play_eps |-> pe,
       save_path |-> sp, load_path |-> lp, seed |-> -1,
       alpha |-> 1, gamma |-> Den,
       eps_start |-> Den, eps_min |-> 0, eps_decay |-> 1] :
      sz \in SizeArgs, te \in 0 .. MaxEpisodes, pe \in 0 .. MaxEpisodes,
      sp \in BOOLEAN, lp \in BOOLEAN }

\* runs that vary the seed and the hyperparameters, on a fresh table
ArgsTrain ==
    { [W |-> sz[1], H |-> sz[2], train_eps |-> te, play_eps |-> 1,
       save_path |-> FALSE, load_path |-> FALSE, seed |-> sd,
       alpha |-> al, gamma |-> ga,
       eps_start |-> e[1], eps_min |-> e[2], eps_decay |-> e[3]] :
      sz \in {<<2, 2>>, <<3, 2>>}, te \in 1 .. MaxEpisodes,
      sd \in 0 .. MaxSeed, al \in 0 .. Den, ga \in {1, Den}, e \in EpsArgs }

Init ==
    /\ pc = "main"
    /\ args \in ArgsIO \cup ArgsTrain
    /\ now \in {MaxSeed \div 3, MaxSeed}
    /\ file \in (IF args.load_path THEN Files ELSE {NoFile})
    /\ writable \in (IF args.save_path THEN BOOLEAN ELSE {TRUE})
    /\ seed = 0 /\ calls = 0
    /\ env = env_init(0, 0) /\ q = NoTable
    /\ exit_code = -1 /\ out = {}
    /\ ep = 0 /\ eps = 0 /\ s = Pos(0, 0) /\ steps = 0 /\ ret = 0
    /\ last = NoStep
    /\ did = [train |-> 0, play |-> 0, save |-> 0]
    /\ runB = NoRun /\ lres = NoLoad /\ qres = NoQuery

\* main, lines 266-272: the size test, srand, env_init
MainStart ==
    /\ pc = "main"
    /\ IF size_invalid(args.W, args.H)
       THEN /\ out' = out \cup {"Invalid --size"}
            /\ exit_code' = 1
            /\ pc' = "exit"
            /\ UNCHANGED <<seed, calls, env>>
       ELSE /\ seed' = SeedOf(args.seed, now)
            /\ calls' = 0
            /\ env' = env_init(args.W, args.H)
            /\ pc' = "load"
            /\ UNCHANGED <<out, exit_code>>
    /\ UNCHANGED <<args, now, q, file, writable, ep, eps, s, steps, ret,
                   last, did, runB, lres, qres>>

\* main, lines 273-288: load_qtable and the size comparison, or qmodel_alloc
MainLoad ==
    /\ pc = "load"
    /\ IF args.load_path
       THEN LET r == load_qtable(file)
            IN  /\ lres' = [called |-> TRUE, status |-> r.status, m |-> r.m]
                /\ IF r.status = "oom"
                   THEN /\ out' = out \cup {"OOM"}
                        /\ exit_code' = 1 /\ pc' = "exit"
                        /\ UNCHANGED q
                   ELSE IF r.status = "fail"
                   THEN /\ out' = out \cup {"Failed to load Q-table"}
                        /\ exit_code' = 1 /\ pc' = "exit"
                        /\ UNCHANGED q
                   ELSE IF r.m.w # args.W \/ r.m.h # args.H
                   THEN /\ out' = out \cup {"Loaded table size doesn't match env"}
                        /\ exit_code' = 1 /\ pc' = "exit"
                        /\ UNCHANGED q
                   ELSE /\ out' = out \cup {"Loaded Q-table"}
                        /\ q' = r.m
                        /\ pc' = "train"
                        /\ UNCHANGED exit_code
       ELSE /\ q' = qmodel_alloc(args.W, args.H)
            /\ pc' = "train"
            /\ UNCHANGED <<lres, out, exit_code>>
    /\ UNCHANGED <<args, now, seed, calls, env, file, writable, ep, eps, s,
                   steps, ret, last, did, runB, qres>>

\* a main that saves after the training block, whether or not it trained
MainTrain_thensave ==
    /\ pc = "train"
    /\ IF args.train_eps > 0
       THEN ep' = 1 /\ pc' = "episode"
       ELSE UNCHANGED ep /\ pc' = "save"
    /\ UNCHANGED <<args, now, seed, calls, env, q, file, writable,
                   exit_code, out, eps, s, steps, ret, last, did, runB, lres,
                   qres>>

\* main, line 290, and train's entry
MainTrain ==
    /\ pc = "train"
    /\ IF args.train_eps > 0
       THEN ep' = 1 /\ pc' = "episode"
       ELSE UNCHANGED ep /\ pc' = "play"
    /\ UNCHANGED <<args, now, seed, calls, env, q, file, writable,
                   exit_code, out, eps, s, steps, ret, last, did, runB, lres,
                   qres>>

\* train, lines 159-163: the episode loop's test, epsilon, the reset
TrainEpisode ==
    /\ pc = "episode"
    /\ IF ep <= args.train_eps
       THEN /\ eps' = Epsilon(ep, args.eps_start, args.eps_min, args.eps_decay)
            /\ s' = Pos(env.start_x, env.start_y)
            /\ steps' = 0 /\ ret' = 0
            /\ pc' = "step"
       ELSE /\ pc' = "save"
            /\ UNCHANGED <<eps, s, steps, ret>>
    /\ UNCHANGED <<args, now, seed, calls, env, q, file, writable,
                   exit_code, out, ep, last, did, runB, lres, qres>>

\* train, lines 164-192: one pass of the inner loop
TrainStep ==
    /\ pc = "step"
    /\ LET r == train_step(env, q, s, eps, args.alpha, args.gamma, seed, calls)
       IN  /\ q' = r.m
           /\ calls' = r.calls
           /\ last' = [called |-> TRUE, s |-> s, a |-> r.a, ns |-> r.ns,
                       reward |-> r.reward, done |-> r.done]
           /\ ret' = FAdd(ret, r.reward)
           /\ s' = r.ns
           /\ steps' = steps + 1
           /\ did' = [did EXCEPT !.train = @ + 1]
           /\ IF episode_over(env, r.done, steps + 1)
              THEN ep' = ep + 1 /\ pc' = "episode"
              ELSE UNCHANGED <<ep, pc>>
    /\ UNCHANGED <<args, now, seed, env, file, writable, exit_code, out, eps,
                   runB, lres, qres>>

\* main, lines 292-295: save_qtable and its report
MainSave ==
    /\ pc = "save"
    /\ IF args.save_path
       THEN \E k \in WriteCounts(q) :
              LET r == save_qtable(file, q, writable, k)
              IN  /\ file' = r.file
                  /\ IF r.exit
                     THEN /\ out' = out \cup {"fopen"}
                          /\ exit_code' = 1 /\ pc' = "exit"
                          /\ UNCHANGED did
                     ELSE /\ out' = out \cup {"Saved Q-table"}
                          /\ did' = [did EXCEPT !.save = @ + 1]
                          /\ pc' = "play"
                          /\ UNCHANGED exit_code
       ELSE /\ pc' = "play"
            /\ UNCHANGED <<file, out, did, exit_code>>
    /\ UNCHANGED <<args, now, seed, calls, env, q, writable, ep, eps, s,
                   steps, ret, last, runB, lres, qres>>

\* main, line 297, and play_greedy's entry
MainPlay ==
    /\ pc = "play"
    /\ IF args.play_eps > 0
       THEN ep' = 1 /\ pc' = "play_episode"
       ELSE UNCHANGED ep /\ pc' = "end"
    /\ UNCHANGED <<args, now, seed, calls, env, q, file, writable,
                   exit_code, out, eps, s, steps, ret, last, did, runB, lres,
                   qres>>

\* play_greedy, lines 196-199: the episode loop's test and the reset
PlayEpisode ==
    /\ pc = "play_episode"
    /\ IF ep <= args.play_eps
       THEN /\ s' = Pos(env.start_x, env.start_y)
            /\ steps' = 0 /\ ret' = 0
            /\ pc' = "play_step"
       ELSE /\ pc' = "end"
            /\ UNCHANGED <<s, steps, ret>>
    /\ UNCHANGED <<args, now, seed, calls, env, q, file, writable,
                   exit_code, out, ep, eps, last, did, runB, lres, qres>>

\* play_greedy, lines 200-213: one pass of the inner loop
PlayStep ==
    /\ pc = "play_step"
    /\ LET r == play_step(env, q, s)
       IN  /\ q' = r.m
           /\ last' = [called |-> TRUE, s |-> s, a |-> r.a, ns |-> r.ns,
                       reward |-> r.reward, done |-> r.done]
           /\ ret' = FAdd(ret, r.reward)
           /\ steps' = steps + 1
           /\ s' = r.ns
           /\ did' = [did EXCEPT !.play = @ + 1]
           /\ IF episode_over(env, r.done, steps + 1)
              THEN ep' = ep + 1 /\ pc' = "play_episode"
              ELSE UNCHANGED <<ep, pc>>
    /\ UNCHANGED <<args, now, seed, calls, env, file, writable, exit_code,
                   out, eps, runB, lres, qres>>

\* main, lines 301-306: the closing message, qmodel_free, return 0
MainEnd ==
    /\ pc = "end"
    /\ out' = IF args.train_eps = 0 /\ args.play_eps = 0
              THEN out \cup {"Nothing to do"} ELSE out
    /\ exit_code' = 0
    /\ pc' = "exit"
    /\ UNCHANGED <<args, now, seed, calls, env, q, file, writable, ep, eps,
                   s, steps, ret, last, did, runB, lres, qres>>

Next ==
    \/ MainStart \/ MainLoad \/ MainTrain \/ TrainEpisode \/ TrainStep
    \/ MainSave \/ MainPlay \/ PlayEpisode \/ PlayStep \/ MainEnd

Spec == Init /\ [][Next]_vars

\* the agent is inside an episode of train or of play_greedy
InEpisode == pc \in {"step", "play_step"}

\* an episode of train or of play_greedy has just ended
EpisodeEnded == pc \in {"episode", "play_episode"} /\ ep > 1

\* inside an episode fewer than step_limit steps were taken and none reached
\* the goal; an episode ends after 1..step_limit steps, at the goal or at
\* step number step_limit
StepBound ==
    /\ InEpisode =>
          /\ steps < env.step_limit
          /\ steps > 0 => ~last.done
    /\ EpisodeEnded =>
          /\ 1 <= steps /\ steps <= env.step_limit
          /\ last.done \/ steps = env.step_limit

\* C2: every episode of train and of play_greedy terminates, after at most
\* step_limit environment steps, whatever the table holds and whatever the
\* random source returns: every pass of the loop counts one more step, the
\* count never exceeds step_limit, and the episode ends at the first step
\* that reaches the goal or at step number step_limit, whichever comes
\* first.
C2_BoundedEpisode ==
    /\ [] StepBound
    /\ [][InEpisode => (steps' = steps + 1 /\ steps' <= env.step_limit)]_vars

\* a training episode that ended by the step limit, away from the goal
C2_Witness ==
    /\ pc = "episode" /\ ep > 1
    /\ steps = env.step_limit /\ ~last.done

\* play_greedy has been called and has not returned
InPlay == pc \in {"play_episode", "play_step"}

\* C5: across the episodes and steps of play_greedy every Q-table entry and
\* the table's (w,h) stay as they were when play_greedy was called, and so
\* does the environment.
C5_PlayReadOnly == [][InPlay => (q' = q /\ env' = env)]_vars

\* play_greedy has run an episode on a table that holds learned values
C5_Witness ==
    /\ pc = "play_episode" /\ ep > 1 /\ did.play > 0
    /\ \E i \in DOMAIN q.q : q.q[i] # 0

\* the requested size is outside 2..10 in a dimension
BadSize == args.W < 2 \/ args.W > 10 \/ args.H < 2 \/ args.H > 10

\* the load path could not be loaded
LoadFailed == lres.called /\ lres.status # "ok"

\* the loaded table's (w,h) differ from the requested (W,H)
SizeMismatch ==
    /\ lres.called /\ lres.status = "ok"
    /\ lres.m.w # args.W \/ lres.m.h # args.H

C7_SaveReported ==
    "Saved Q-table" \in out =>
      /\ file.exists
      /\ Len(file.data) = 2 + q.w * q.h * NUM_ACTIONS
      /\ file.data[1] = q.w /\ file.data[2] = q.h
      /\ \A i \in 0 .. (q.w * q.h * NUM_ACTIONS - 1) : file.data[3 + i] = q.q[i]

(***************************************************************************)
(* Two independent training runs with the same arguments and start table   *)
(***************************************************************************)
\* the arguments of the two runs; seed -1 is a run without --seed
ArgsDet ==
    { [W |-> 2, H |-> 2, train_eps |-> te, play_eps |-> 0,
       save_path |-> FALSE, load_path |-> FALSE, seed |-> sd,
       alpha |-> al, gamma |-> Den,
       eps_start |-> e[1], eps_min |-> e[2], eps_decay |-> e[3]] :
      te \in {MaxEpisodes}, sd \in -1 .. MaxSeed, al \in {1, Den},
      e \in EpsArgs }

\* both runs are about to train: the first was started at time
\* MaxSeed \div 3, the second at time MaxSeed
InitDet ==
    /\ pc = "train"
    /\ args \in ArgsDet
    /\ now = MaxSeed \div 3
    /\ seed = SeedOf(args.seed, now) /\ calls = 0
    /\ env = env_init(args.W, args.H)
    /\ q \in {qmodel_alloc(args.W, args.H), SampleTable}
    /\ file = NoFile /\ writable = TRUE
    /\ exit_code = -1 /\ out = {}
    /\ ep = 0 /\ eps = 0 /\ s = Pos(0, 0) /\ steps = 0 /\ ret = 0
    /\ last = NoStep
    /\ did = [train |-> 0, play |-> 0, save |-> 0]
    /\ runB = [on |-> TRUE, now |-> MaxSeed,
               seed |-> SeedOf(args.seed, MaxSeed), calls |-> 0,
               q |-> q, pc |-> "episode", ep |-> 1, eps |-> 0,
               s |-> Pos(0, 0), steps |-> 0, tick |-> 0,
               last_s |-> Pos(0, 0), last_a |-> 0]
    /\ lres = NoLoad /\ qres = NoQuery

\* train, lines 159-163, in the second run
TrainEpisodeB ==
    /\ runB.on /\ runB.pc = "episode"
    /\ runB' = IF runB.ep <= args.train_eps
               THEN [runB EXCEPT
                       !.eps = Epsilon(runB.ep, args.eps_start, args.eps_min,
                                       args.eps_decay),
                       !.s = Pos(env.start_x, env.start_y),
                       !.steps = 0,
                       !.pc = "step"]
               ELSE [runB EXCEPT !.pc = "done"]
    /\ UNCHANGED <<pc, args, now, seed, calls, env, q, file, writable,
                   exit_code, out, ep, eps, s, steps, ret, last, did, lres,
                   qres>>

\* train, lines 164-192, in the second run
TrainStepB ==
    /\ runB.on /\ runB.pc = "step"
    /\ LET r == train_step(env, runB.q, runB.s, runB.eps, args.alpha,
                           args.gamma, runB.seed, runB.calls)
           over == episode_over(env, r.done, runB.steps + 1)
       IN  runB' = [runB EXCEPT
                      !.q = r.m, !.calls = r.calls,
                      !.last_s = runB.s, !.last_a = r.a,
                      !.s = r.ns, !.steps = @ + 1, !.tick = @ + 1,
                      !.ep = IF over THEN @ + 1 ELSE @,
                      !.pc = IF over THEN "episode" ELSE @]
    /\ UNCHANGED <<pc, args, now, seed, calls, env, q, file, writable,
                   exit_code, out, ep, eps, s, steps, ret, last, did, lres,
                   qres>>

NextDet ==
    \/ MainTrain \/ TrainEpisode \/ TrainStep
    \/ TrainEpisodeB \/ TrainStepB

SpecDet == InitDet /\ [][NextDet]_vars

EpsRange ==
    { <<st, mn, dc>> : st \in -Den .. Den, mn \in -Den .. Den, dc \in -1 .. 1 }

\* train is entered with some hyperparameters, before its first episode
InitEps ==
    /\ pc = "eps"
    /\ \E e \in EpsRange :
          args = [NoArgs EXCEPT !.train_eps = MaxEpisodes + 1,
                                !.eps_start = e[1], !.eps_min = e[2],
                                !.eps_decay = e[3]]
    /\ ep = 1 /\ eps = 0
    /\ now = 0 /\ seed = 0 /\ calls = 0
    /\ writable = FALSE /\ exit_code = -1 /\ out = {}
    /\ steps = 0 /\ ret = 0
    /\ did = [train |-> 0, play |-> 0, save |-> 0]
    /\ runB = NoRun
    /\ env = env_init(0, 0) /\ s = Pos(0, 0) /\ last = NoStep
    /\ q = NoTable /\ file = NoFile /\ lres = NoLoad /\ qres = NoQuery

\* train, lines 159-161: the episode loop's header and the epsilon of
\* episode ep
EpsilonOfEpisode ==
    /\ pc = "eps"
    /\ ep <= args.train_eps
    /\ eps' = Epsilon(ep, args.eps_start, args.eps_min, args.eps_decay)
    /\ ep' = ep + 1
    /\ UNCHANGED <<pc, args, now, seed, calls, env, q, file, writable,
                   exit_code, out, s, steps, ret, last, did, runB, lres, qres>>

NextEps == EpsilonOfEpisode

SpecEps == InitEps /\ [][NextEps]_vars

\* an epsilon has been computed (that of episode ep - 1)
EpsComputed == pc = "eps" /\ ep > 1

\* C11 as stated: for any episode index >= 1 and any hyperparameters the
\* command line accepts, the epsilon train computes is never below eps_min
\* and never above eps_start.
C11_EpsilonBounds ==
    EpsComputed => (eps >= args.eps_min /\ eps <= args.eps_start)

\* C11 as amended: for any episode index >= 1 the epsilon train computes is
\* never below eps_min; it is never above eps_start when eps_start >= 0,
\* eps_decay >= 0 and eps_min <= eps_start.
C11_EpsilonFloor ==
    EpsComputed =>
      /\ eps >= args.eps_min
      /\ (args.eps_start >= 0 /\ args.eps_decay >= 0
            /\ args.eps_min <= args.eps_start) => eps <= args.eps_start

\* a decaying schedule held at its positive floor, below its start
C11_Witness ==
    /\ EpsComputed /\ ep > 2
    /\ args.eps_decay > 0 /\ args.eps_min > 0
    /\ args.eps_min < args.eps_start
    /\ eps = args.eps_min

(***************************************************************************)
(* Training and evaluation on every grid size main accepts                 *)
(***************************************************************************)
\* MaxEpisodes training episodes and one evaluation episode on a fresh or a
\* loaded table of every allowed size, learning at full rate, always greedy
\* or always exploring
ArgsGrid ==
    { [W |-> w, H |-> h, train_eps |-> MaxEpisodes, play_eps |-> 1,
       save_path |-> FALSE, load_path |-> lp, seed |-> sd,
       alpha |-> Den, gamma |-> Den,
       eps_start |-> e, eps_min |-> 0, eps_decay |-> 0] :
      w \in 2 .. MAX_W, h \in 2 .. MAX_H,
      sd \in {MaxSeed \div 3, MaxSeed}, e \in {0, Den}, lp \in BOOLEAN }

InitGrid ==
    /\ pc = "main"
    /\ args \in ArgsGrid
    /\ now = MaxSeed
    /\ file \in (IF args.load_path THEN Files ELSE {NoFile})
    /\ writable = TRUE
    /\ seed = 0 /\ calls = 0
    /\ env = env_init(0, 0) /\ q = NoTable
    /\ exit_code = -1 /\ out = {}
    /\ ep = 0 /\ eps = 0 /\ s = Pos(0, 0) /\ steps = 0 /\ ret = 0
    /\ last = NoStep
    /\ did = [train |-> 0, play |-> 0, save |-> 0]
    /\ runB = NoRun /\ lres = NoLoad /\ qres = NoQuery

SpecGrid == InitGrid /\ [][Next]_vars

\* env_init has run (main is past line 272 and did not reject the size)
EnvBuilt == pc \notin {"main", "walk", "eps"} /\ env.w > 0

\* the cells of env are laid out as env_init's contract says
EnvWellFormed ==
    LET start == Pos(env.start_x, env.start_y)
        goal == Pos(env.goal_x, env.goal_y)
    IN  /\ start = Pos(0, 0) /\ goal = Pos(env.w - 1, env.h - 1)
        /\ InGrid(start) /\ InGrid(goal)
        /\ ~Blocked(start) /\ ~Blocked(goal)
        /\ start # goal
        /\ \A c \in env.walls :
              0 <= c[2] /\ c[2] < env.w /\ 0 <= c[1] /\ c[1] < env.h

\* C12: for every size W, H in 2..10 the environment env_init builds has
\* start (0,0) and goal (W-1,H-1), both in bounds and no obstacles, start
\* different from goal and every obstacle inside the grid; train and
\* play_greedy never modify it.
C12_EnvInvariant ==
    /\ [](EnvBuilt => (env.w = args.W /\ env.h = args.H /\ EnvWellFormed))
    /\ [][EnvBuilt => env' = env]_vars

\* a grid with obstacles, after a training step and an evaluation step
C12_Witness ==
    /\ EnvBuilt /\ env.walls # {}
    /\ env.w # env.h
    /\ did.train > 0 /\ did.play > 0

(***************************************************************************)
(* The default 5x5 grid: step sequences from the start, greedy evaluation  *)
(***************************************************************************)
\* the cell reached from p by the first n actions of path
WalkTo(e, path, n) ==
    LET RECURSIVE go(_)
        go(i) == IF i = 0 THEN Pos(e.start_x, e.start_y)
                 ELSE env_step(e, go(i - 1), path[i]).ns
    IN  go(n)

\* the number of steps between start and goal on a grid without obstacles
PathLen(e) == (e.goal_x - e.start_x) + (e.goal_y - e.start_y)

\* the action sequences of that length that end on the goal
GoalPaths(e) ==
    { path \in [1 .. PathLen(e) -> 0 .. NUM_ACTIONS - 1] :
         LET p == WalkTo(e, path, PathLen(e))
         IN  p.x = e.goal_x /\ p.y = e.goal_y }

\* a table whose greedy policy takes path from the start: value 1 on each
\* (cell, action) of the path, 0 elsewhere
PolicyTable(e, path) ==
    [w |-> e.w, h |-> e.h,
     q |-> [i \in 0 .. (e.w * e.h * NUM_ACTIONS - 1) |->
              IF \E n \in 1 .. PathLen(e) :
                    LET p == WalkTo(e, path, n - 1)
                    IN  i = idxQ(state_id(e, p.x, p.y), path[n])
              THEN 1 ELSE 0]]

\* the default run (no --size): either any walk from the start, or
\* play_greedy about to evaluate a table that holds a path to the goal
InitPath ==
    /\ args = [NoArgs EXCEPT !.W = DEFAULT_W, !.H = DEFAULT_H, !.play_eps = 1]
    /\ env = env_init(args.W, args.H)
    /\ \/ pc = "path" /\ q = NoTable
       \/ /\ pc = "play"
          /\ \E path \in GoalPaths(env) : q = PolicyTable(env, path)
    /\ s = Pos(env.start_x, env.start_y)
    /\ now = 0 /\ seed = 0 /\ calls = 0
    /\ writable = FALSE /\ exit_code = -1 /\ out = {}
    /\ ep = 0 /\ eps = 0 /\ steps = 0 /\ ret = 0
    /\ did = [train |-> 0, play |-> 0, save |-> 0]
    /\ runB = NoRun
    /\ last = NoStep
    /\ file = NoFile /\ lres = NoLoad /\ qres = NoQuery

\* one env_step call with any action, counted, on a walk of at most
\* w + h steps
PathStep ==
    /\ pc = "path"
    /\ steps < env.w + env.h
    /\ ~(s.x = env.goal_x /\ s.y = env.goal_y)
    /\ \E a \in 0 .. NUM_ACTIONS - 1 :
          LET r == env_step(env, s, a)
          IN  /\ s' = r.ns
              /\ last' = [called |-> TRUE, s |-> s, a |-> a, ns |-> r.ns,
                          reward |-> r.reward, done |-> r.done]
    /\ steps' = steps + 1
    /\ UNCHANGED <<pc, args, now, seed, calls, env, q, file, writable,
                   exit_code, out, ep, eps, ret, did, runB, lres, qres>>

NextPath == PathStep \/ MainPlay \/ PlayEpisode \/ PlayStep \/ MainEnd

SpecPath == InitPath /\ [][NextPath]_vars

\* the obstacle cells of env as (x, y) pairs
Obstacles == { <<c[2], c[1]>> : c \in env.walls }

\* the agent stands on the goal
AtGoal == s.x = env.goal_x /\ s.y = env.goal_y

\* C13: the default environment is 5x5 with start (0,0), goal (4,4),
\* obstacles exactly {(2,1),(2,2),(2,3),(1,3)} and step limit 100; no
\* sequence of fewer than 8 steps from the start reaches the goal; an
\* evaluation episode that follows a sequence of 8 steps to the goal ends
\* with done after 8 steps, within the step limit.
C13_DefaultGeometry ==
    /\ env.w = 5 /\ env.h = 5
    /\ env.start_x = 0 /\ env.start_y = 0
    /\ env.goal_x = 4 /\ env.goal_y = 4
    /\ Obstacles = {<<2, 1>>, <<2, 2>>, <<2, 3>>, <<1, 3>>}
    /\ env.step_limit = 100
    /\ (pc = "path" /\ AtGoal) => steps >= 8
    /\ (pc = "play_step" /\ steps > 0) => (steps < 8 /\ ~AtGoal /\ ~last.done)
    /\ (pc \in {"play_episode", "end", "exit"} /\ did.play > 0) =>
          /\ last.done /\ AtGoal
          /\ steps = 8 /\ steps <= env.step_limit

\* an evaluation episode that went round the obstacles in 8 steps and ended
\* with done
C13_Witness ==
    /\ pc = "play_episode" /\ ep = 2
    /\ did.play = 8 /\ steps = 8 /\ AtGoal /\ last.done
    /\ ret = 7 * STEP_REWARD + GOAL_REWARD

\* main holds a table and an environment that passed its checks
TableReady ==
    pc \in {"train", "episode", "step", "save", "play", "play_episode",
            "play_step", "end"}

\* the state ids and the slots of a w x h table
StateIds == 0 .. (env.w * env.h - 1)

Slots == 0 .. (env.w * env.h * NUM_ACTIONS - 1)

\* the slots argmax_a and maxQ read for the cell p
RowSlots(p) ==
    { idxQ(state_id(env, p.x, p.y), a) : a \in 0 .. NUM_ACTIONS - 1 }

\* C14: in a run that passed the size and dimension checks the table has
\* W*H*4 slots; argmax_a, maxQ and the update of train and play_greedy use a
\* state id y*w+x in [0, W*H), an action in [0, 4) and so a slot in
\* [0, W*H*4); distinct cells have distinct state ids.
C14_IndexSafety ==
    /\ (pc = "load" /\ env.w > 0) =>
          \A x1, x2 \in 0 .. env.w - 1, y1, y2 \in 0 .. env.h - 1 :
             state_id(env, x1, y1) = state_id(env, x2, y2)
                => (x1 = x2 /\ y1 = y2)
    /\ TableReady =>
          /\ q.w = env.w /\ q.h = env.h /\ DOMAIN q.q = Slots
    /\ pc \in {"step", "play_step"} =>
          /\ state_id(env, s.x, s.y) \in StateIds
          /\ RowSlots(s) \subseteq DOMAIN q.q
    /\ (TableReady /\ last.called) =>
          /\ state_id(env, last.s.x, last.s.y) \in StateIds
          /\ last.a \in 0 .. NUM_ACTIONS - 1
          /\ idxQ(state_id(env, last.s.x, last.s.y), last.a) \in Slots
          /\ state_id(env, last.ns.x, last.ns.y) \in StateIds
          /\ RowSlots(last.ns) \subseteq DOMAIN q.q

\* a training step on a loaded table of a grid wider than high, away from
\* the start cell, exploring, with an action other than 0
C14_Witness ==
    /\ pc = "step" /\ lres.called /\ last.called
    /\ env.w > env.h
    /\ last.s.x > 0
    /\ eps > 0 /\ last.a > 0

(***************************************************************************)
(* The training update                                                     *)
(***************************************************************************)
\* the slot of the cell the agent stands on and of the action the step
\* about to be taken selects
StepSlot == idxQ(state_id(env, s.x, s.y), last'.a)

\* C15: a training step writes only the slot (s, a) of the cell s the agent
\* stood on and the action a it selected; every other slot, the table's
\* (w, h) and the environment keep their values; when the step ends on the
\* goal the value written is old + alpha * (reward - old), with no term for
\* the next state.
C15_SingleSlot ==
    [][pc = "step" =>
         /\ last'.s = s
         /\ DOMAIN q'.q = DOMAIN q.q
         /\ \A i \in DOMAIN q.q : i # StepSlot => q'.q[i] = q.q[i]
         /\ q'.w = q.w /\ q'.h = q.h
         /\ env' = env
         /\ last'.done =>
               q'.q[StepSlot] =
                  FAdd(q.q[StepSlot],
                       FScale(args.alpha, FSub(last'.reward, q.q[StepSlot])))
    ]_vars

\* a training step that reached the goal and changed the value of its slot,
\* in a table that holds other learned values
C15_Witness ==
    /\ pc = "episode" /\ last.called /\ last.done
    /\ args.alpha > 0
    /\ q.q[idxQ(state_id(env, last.s.x, last.s.y), last.a)] > 0
    /\ \E i \in DOMAIN q.q :
          /\ i # idxQ(state_id(env, last.s.x, last.s.y), last.a)
          /\ q.q[i] < 0

(***************************************************************************)
(* The epsilon-greedy draw                                                 *)
(***************************************************************************)
\* the output of the rand() call eps_greedy_action is about to make first
Draw == RandOut(seed, calls)

\* the step about to be taken chose its action with a second rand() call
TookRandom ==
    /\ calls' = calls + 2
    /\ last'.a = RandOut(seed, calls + 1) % NUM_ACTIONS
    /\ last'.a \in 0 .. NUM_ACTIONS - 1

\* the step about to be taken chose the greedy action
TookGreedy ==
    /\ calls' = calls + 1
    /\ last'.a = argmax_a(q, state_id(env, s.x, s.y))

\* C16: for every output of rand() the value rand()/RAND_MAX compared with
\* epsilon lies in [0, 1); the action is a random one in [0, 4) if the value
\* is less than epsilon and argmax_a(state) otherwise; with epsilon = 0 the
\* action is always the greedy one, with epsilon = 1 always a random one.
C16_EpsGreedyDraw ==
    [][pc = "step" =>
         /\ 0 <= Draw /\ Draw < RAND_MAX
         /\ IF Draw * Den < eps * RAND_MAX THEN TookRandom ELSE TookGreedy
         /\ eps = 0 => TookGreedy
         /\ eps = Den => TookRandom
    ]_vars

(***************************************************************************)
(* The order of load, training, save and evaluation in main                *)
(***************************************************************************)
\* load_qtable returned a table of the environment's size
LoadPassed ==
    /\ lres.called /\ lres.status = "ok"
    /\ lres.m.w = args.W /\ lres.m.h = args.H

\* main called save_qtable: it reported the save or failed in fopen
SaveCalled == "Saved Q-table" \in out \/ "fopen" \in out

\* train has returned (or was not called) and main went on
PastTraining ==
    pc \in {"play", "play_episode", "play_step", "end", "exit"}

\* main got past the training block without a fatal error
RunWentOn ==
    \/ pc \in {"play", "play_episode", "play_step", "end"}
    \/ pc = "exit" /\ exit_code = 0

\* the order of load, training, save and evaluation
RunOrder ==
    /\ [](did.train > 0 => (args.load_path => LoadPassed))
    /\ [](SaveCalled =>
            /\ args.save_path /\ PastTraining
            /\ did.train >= args.train_eps)
    /\ [][did.train > 0 => lres' = lres]_vars
    /\ [][(file' # file \/ SaveCalled' # SaveCalled) =>
            /\ pc = "save" /\ ep = args.train_eps + 1
            /\ did.play = 0 /\ did'.play = 0]_vars
    /\ [][did.play > 0 => (file' = file /\ did'.train = did.train)]_vars

\* C17 as stated: the load and its dimension check complete before the
\* first training step; the save happens only after the last training
\* episode and before any evaluation episode; a save is performed whenever a
\* save path is given, also in a run that loads a table.
C17_RunOrder ==
    /\ RunOrder
    /\ []((RunWentOn /\ args.save_path) => SaveCalled)

\* C17 as amended: the load and its dimension check complete before the
\* first training step; the save happens only after the last training
\* episode and before any evaluation episode; a save is performed exactly
\* when a save path is given and train_eps > 0, also in a run that loads a
\* table; with train_eps = 0 no save is made.
C17_SaveAfterTraining ==
    /\ RunOrder
    /\ []((RunWentOn \/ SaveCalled) =>
            (SaveCalled <=> (args.save_path /\ args.train_eps > 0)))

\* a run that loaded a table, trained it, saved it and is evaluating it
C17_Witness ==
    /\ args.load_path /\ LoadPassed
    /\ did.train > 0 /\ did.save = 1 /\ "Saved Q-table" \in out
    /\ pc = "play_step" /\ did.play > 0

(***************************************************************************)
(* The table entries training never writes                                 *)
(***************************************************************************)
\* the cells of env that are the goal or an obstacle
ClosedCells ==
    { c \in (0 .. env.w - 1) \X (0 .. env.h - 1) :
         \/ c[1] = env.goal_x /\ c[2] = env.goal_y
         \/ <<c[2], c[1]>> \in env.walls }

\* the slots of those cells
ClosedSlots ==
    { idxQ(state_id(env, c[1], c[2]), a) :
         c \in ClosedCells, a \in 0 .. NUM_ACTIONS - 1 }

\* C18: at the start of every training step the agent stands on a valid cell
\* other than the goal; a training step leaves the entries of the goal cell
\* and of every obstacle cell as they were; in a run that started from a
\* zero table they are all zero during and after training.
C18_UntouchedEntries ==
    /\ [](pc = "step" => (env_valid(env, s.x, s.y) /\ ~AtGoal))
    /\ [][pc = "step" => \A i \in ClosedSlots : q'.q[i] = q.q[i]]_vars
    /\ []((TableReady /\ ~args.load_path) =>
             \A i \in ClosedSlots : q.q[i] = 0)

\* a second training episode on a grid with obstacles that reached the goal
\* and left learned values in the table
C18_Witness ==
    /\ pc = "episode" /\ ep > 2 /\ last.called /\ last.done
    /\ env.walls # {} /\ ~args.load_path
    /\ q.q[idxQ(state_id(env, last.s.x, last.s.y), last.a)] > 0
    /\ \E i \in DOMAIN q.q : q.q[i] < 0

(***************************************************************************)
(* Steps and return of an episode                                          *)
(***************************************************************************)
\* every value of the table is zero
ZeroTable == \A i \in DOMAIN q.q : q.q[i] = 0

\* C19: an episode of train or play_greedy that has ended took n steps with
\* 1 <= n <= step_limit; its return is (n-1)*step_reward + goal_reward when
\* it ended on the goal and n*step_reward, with n = step_limit, when it did
\* not; an evaluation episode on an all-zero table ends at the step limit,
\* not on the goal, with return step_limit*step_reward.
C19_EpisodeAccounting ==
    (EpisodeEnded /\ last.called) =>
      /\ 1 <= steps /\ steps <= env.step_limit
      /\ last.done =>
            ret = (steps - 1) * env.step_reward + env.goal_reward
      /\ ~last.done =>
            (steps = env.step_limit /\ ret = steps * env.step_reward)
      /\ (pc = "play_episode" /\ ZeroTable) =>
            /\ ~last.done /\ steps = env.step_limit
            /\ ret = env.step_limit * env.step_reward

\* an evaluation episode on an all-zero table that ran into the step limit
C19_Witness ==
    /\ pc = "play_episode" /\ ep > 1 /\ last.called
    /\ ZeroTable /\ ~last.done
    /\ steps = env.step_limit /\ ret = env.step_limit * STEP_REWARD

=============================================================================
